---- MODULE Spec2Model ----
(***************************************************************************)
(* Aggregation functions of the storage engine (be/src/olap/               *)
(* aggregate_func.h) and the rowset lifecycle (be/src/olap/rowset/         *)
(* alpha_rowset.h).                                                        *)
(*                                                                         *)
(* One destination cell is driven through init / update / merge /          *)
(* finalize of the AggregateInfo selected for one (method, type) pair.     *)
(* CppType is instantiated at the narrowest integer type (TINYINT,         *)
(* int8_t), whose "+=" narrows back to 8 bits; the LARGEINT                *)
(* specialisations run the same arithmetic through memcpy'd locals.        *)
(***************************************************************************)
EXTENDS Integers, Sequences, FiniteSets, TLC

VARIABLES
    method,      \* the (aggregation method, field type) pair of the column
    phase,       \* "constructed" | "inited" | "finalized" | "crashed"
    dst,         \* the destination RowCursorCell: null flag, value, Slice, HllContext
    hist,        \* the source cells folded into dst so far, in call order
    last_op,     \* the AggregateInfo entry point called last
    last_arena,  \* whether the last update/merge was handed an Arena
    all_arena,   \* whether every update/merge so far was handed an Arena
    rowset       \* the AlphaRowset object and its files on disk

vars == <<method, phase, dst, hist, last_op, last_arena, all_arena, rowset>>

---------------------------------------------------------------------------
\* Bounds of the model.

\* number of source cells folded into one destination
MaxHist == 3
\* longest CHAR/VARCHAR source value, in bytes
MaxLen == 2
\* 64-bit hash values are drawn from 1..MaxHash
MaxHash == 4
\* files of the rowset's segment groups
NumFiles == 3

---------------------------------------------------------------------------
\* Values.

\* width of CppType (int8_t)
CppBits == 8

CppMin == -(2 ^ (CppBits - 1))
CppMax == (2 ^ (CppBits - 1)) - 1

\* the conversion of an int result back to CppType
Narrow(x) == ((x + 2 ^ (CppBits - 1)) % (2 ^ CppBits)) - 2 ^ (CppBits - 1)

\* non-null source values, the extremes of CppType among them
Values == {CppMin, -1, 2, 5, CppMax}

Max2(a, b) == IF a > b THEN a ELSE b

nullptr == <<"", "nullptr">>

---------------------------------------------------------------------------
\* Slices and the HLL context.

\* a Slice: size is the recorded length; bytes is the memory at data, which
\* holds cap bytes of the buffer and, past them, whatever was written beyond it
NoSlice == [cap |-> 0, size |-> 0, bytes |-> <<>>]

\* memory_copy(dst, src, n): the first n bytes at dst become src's
MemoryCopy(bytes, src, n) == SubSeq(src, 1, n) \o SubSeq(bytes, n + 1, Len(bytes))

Repeat(b, n) == [i \in 1..n |-> b]

\* CHAR/VARCHAR source values
CharValues == {Repeat(b, n) : b \in {"a", "b"}, n \in 0..MaxLen}

\* registers of a sketch (scaled down)
HLL_REGISTERS_COUNT == 3
\* explicit entries above this count force conversion to registers (scaled down)
HLL_EXPLICLIT_INT64_NUM == 2
\* column byte-length budget (scaled down with the register count)
HLL_COLUMN_DEFAULT_LEN == 12

SizeofSparseIndexType == 2
SizeofSparseValueType == 1
SizeofSparseLengthValueType == 4
SizeofExplicitLengthValueType == 1
SizeofHash64 == 8
SizeofSetType == 1

RegIndex == 0..(HLL_REGISTERS_COUNT - 1)
Hashes == 1..MaxHash
ZeroRegisters == [i \in RegIndex |-> 0]

\* a serialized sketch: the format tag and its payload
Sketch(t, hs, rs) == [type |-> t, hashes |-> hs, regs |-> rs]
EmptySketch == Sketch("EMPTY", {}, ZeroRegisters)

NoContext ==
    [hash64_set |-> {}, registers |-> ZeroRegisters,
     has_sparse_or_full |-> FALSE, has_value |-> FALSE, hash64_set_deleted |-> FALSE]

\* HllSetHelper::init_context
InitContext(c) ==
    [c EXCEPT !.hash64_set = {}, !.registers = ZeroRegisters,
              !.has_sparse_or_full = FALSE, !.has_value = FALSE,
              !.hash64_set_deleted = FALSE]

\* register index and rank of one hash value
HashIndex(h) == h % HLL_REGISTERS_COUNT
HashRank(h) == (h \div HLL_REGISTERS_COUNT) + 1

SetMax(S) == CHOOSE x \in S : \A y \in S : y <= x

\* HllSetHelper::set_max_register
SetMaxRegister(registers, hashes) ==
    [i \in RegIndex |->
        SetMax({registers[i]} \cup {HashRank(h) : h \in {g \in hashes : HashIndex(g) = i}})]

\* HllSetHelper::fill_set
FillSet(sk, c) ==
    IF sk.type = "EXPLICIT"
    THEN [c EXCEPT !.hash64_set = @ \cup sk.hashes]
    ELSE IF sk.type # "EMPTY"
    THEN [c EXCEPT !.has_sparse_or_full = TRUE,
                   !.registers = [i \in RegIndex |-> Max2(@[i], sk.regs[i])]]
    ELSE c

\* HllSetHelper::set_full / set_sparse / set_explicit: the bytes written and result_len
SetFull(registers) ==
    [data |-> Sketch("FULL", {}, registers),
     len |-> SizeofSetType + HLL_REGISTERS_COUNT]
SetSparse(registers, index_to_value) ==
    [data |-> Sketch("SPARSE", {}, [i \in RegIndex |-> IF i \in index_to_value THEN registers[i] ELSE 0]),
     len |-> SizeofSetType + SizeofSparseLengthValueType
             + Cardinality(index_to_value) * (SizeofSparseIndexType + SizeofSparseValueType)]
SetExplicit(hashes) ==
    [data |-> Sketch("EXPLICIT", hashes, ZeroRegisters),
     len |-> SizeofSetType + SizeofExplicitLengthValueType + Cardinality(hashes) * SizeofHash64]

---------------------------------------------------------------------------
\* BaseAggregateFuncs and the AggregateFuncTraits specialisations.  d is the
\* destination cell, s the source cell, arena is nullptr or TheArena.

BaseInit(d) == [d EXCEPT !.null = TRUE]

BaseUpdate(d, s, arena) == d

BaseFinalize(d) == d

MinUpdate(d, s, arena) ==
    IF s.null THEN d
    ELSE IF d.null \/ s.val < d.val
         THEN [d EXCEPT !.null = FALSE, !.val = s.val]
         ELSE d

\* MinLargeIntUpdate without the early return on a null source
MinLargeIntUpdateNoNullCheck(d, s, arena) ==
    IF d.null
    THEN [d EXCEPT !.null = FALSE, !.val = s.val]
    ELSE IF s.val < d.val
         THEN [d EXCEPT !.null = FALSE, !.val = s.val]
         ELSE d

MinLargeIntUpdate(d, s, arena) ==
    IF s.null THEN d
    ELSE IF d.null
         THEN [d EXCEPT !.null = FALSE, !.val = s.val]
         ELSE LET dst_val == d.val
                  src_val == s.val
              IN  IF src_val < dst_val
                  THEN [d EXCEPT !.null = FALSE, !.val = s.val]
                  ELSE d

\* MaxUpdate with MIN's comparison left in
MaxUpdateLess(d, s, arena) ==
    IF s.null THEN d
    ELSE IF d.null \/ s.val < d.val
         THEN [d EXCEPT !.null = FALSE, !.val = s.val]
         ELSE d

MaxUpdate(d, s, arena) ==
    IF s.null THEN d
    ELSE IF d.null \/ s.val > d.val
         THEN [d EXCEPT !.null = FALSE, !.val = s.val]
         ELSE d

MaxLargeIntUpdate(d, s, arena) ==
    IF s.null THEN d
    ELSE LET dst_val == d.val
             src_val == s.val
         IN  IF d.null \/ src_val > dst_val
             THEN [d EXCEPT !.null = FALSE, !.val = s.val]
             ELSE d

\* SumUpdate that adds into a null destination instead of adopting the source
SumUpdateNoAdopt(d, s, arena) ==
    IF s.null THEN d
    ELSE [d EXCEPT !.null = FALSE, !.val = Narrow(d.val + s.val)]

SumUpdate(d, s, arena) ==
    IF s.null THEN d
    ELSE IF d.null
         THEN [d EXCEPT !.null = FALSE, !.val = s.val]
         ELSE [d EXCEPT !.val = Narrow(d.val + s.val)]

SumLargeIntUpdate(d, s, arena) ==
    IF s.null THEN d
    ELSE IF d.null
         THEN [d EXCEPT !.null = FALSE, !.val = s.val]
         ELSE LET dst_val == d.val
                  src_val == s.val
              IN  [d EXCEPT !.val = Narrow(dst_val + src_val)]

\* ReplaceUpdate that ignores null sources the way MIN/MAX/SUM do
ReplaceUpdateSkipNull(d, s, arena) ==
    IF s.null THEN d
    ELSE [d EXCEPT !.null = FALSE, !.val = s.val]

ReplaceUpdate(d, s, arena) ==
    IF s.null
    THEN [d EXCEPT !.null = TRUE]
    ELSE [d EXCEPT !.null = FALSE, !.val = s.val]

\* ReplaceCharUpdate with the size comparison turned round
ReplaceCharUpdateSmaller(d, s, arena) ==
    LET dst_null == d.null
        size == Len(s.val)
    IN  IF s.null
        THEN [d EXCEPT !.null = TRUE]
        ELSE IF arena = nullptr \/ (~dst_null /\ d.slice.size <= size)
             THEN [d EXCEPT !.null = FALSE,
                            !.slice.bytes = MemoryCopy(@, s.val, size),
                            !.slice.size = size]
             ELSE [d EXCEPT !.null = FALSE,
                            !.slice = [cap |-> size,
                                       bytes |-> MemoryCopy(Repeat("?", size), s.val, size),
                                       size |-> size]]

ReplaceCharUpdate(d, s, arena) ==
    LET dst_null == d.null
        size == Len(s.val)
    IN  IF s.null
        THEN [d EXCEPT !.null = TRUE]
        ELSE IF arena = nullptr \/ (~dst_null /\ d.slice.size >= size)
             THEN [d EXCEPT !.null = FALSE,
                            !.slice.bytes = MemoryCopy(@, s.val, size),
                            !.slice.size = size]
             ELSE [d EXCEPT !.null = FALSE,
                            !.slice = [cap |-> size,
                                       bytes |-> MemoryCopy(Repeat("?", size), s.val, size),
                                       size |-> size]]

\* HllInit that leaves the null byte as it found it
HllInitKeepNull(d) ==
    [d EXCEPT !.ctx = [InitContext(@) EXCEPT !.has_value = TRUE]]

HllInit(d) ==
    [d EXCEPT !.null = FALSE,
              !.ctx = [InitContext(@) EXCEPT !.has_value = TRUE]]

HllUpdate(d, s, arena) == [d EXCEPT !.ctx = FillSet(s.val, @)]

\* HllFinalize that converts on the hash count alone
HllFinalizeNoFlag(d) ==
    LET context == d.ctx
        convert == Cardinality(context.hash64_set) > HLL_EXPLICLIT_INT64_NUM
        registers == IF convert
                     THEN SetMaxRegister(context.registers, context.hash64_set)
                     ELSE context.registers
        index_to_value == IF convert THEN {i \in RegIndex : registers[i] # 0} ELSE {}
        sparse_set_len == Cardinality(index_to_value)
                              * (SizeofSparseIndexType + SizeofSparseValueType)
                          + SizeofSparseLengthValueType
        out == IF sparse_set_len >= HLL_COLUMN_DEFAULT_LEN
               THEN SetFull(registers)
               ELSE IF Cardinality(index_to_value) > 0
               THEN SetSparse(registers, index_to_value)
               ELSE IF Cardinality(context.hash64_set) > 0
               THEN SetExplicit(context.hash64_set)
               ELSE [data |-> d.val, len |-> 0]
    IN  [d EXCEPT !.val = out.data,
                  !.slice.size = out.len % 65536,
                  !.ctx.registers = registers,
                  !.ctx.hash64_set_deleted = TRUE]

HllFinalize(d) ==
    LET context == d.ctx
        convert == context.has_sparse_or_full
                   \/ Cardinality(context.hash64_set) > HLL_EXPLICLIT_INT64_NUM
        registers == IF convert
                     THEN SetMaxRegister(context.registers, context.hash64_set)
                     ELSE context.registers
        index_to_value == IF convert THEN {i \in RegIndex : registers[i] # 0} ELSE {}
        sparse_set_len == Cardinality(index_to_value)
                              * (SizeofSparseIndexType + SizeofSparseValueType)
                          + SizeofSparseLengthValueType
        out == IF sparse_set_len >= HLL_COLUMN_DEFAULT_LEN
               THEN SetFull(registers)
               ELSE IF Cardinality(index_to_value) > 0
               THEN SetSparse(registers, index_to_value)
               ELSE IF Cardinality(context.hash64_set) > 0
               THEN SetExplicit(context.hash64_set)
               ELSE [data |-> d.val, len |-> 0]
    IN  [d EXCEPT !.val = out.data,
                  !.slice.size = out.len % 65536,
                  !.ctx.registers = registers,
                  !.ctx.hash64_set_deleted = TRUE]

---------------------------------------------------------------------------
\* The dispatch table: one AggregateInfo per (method, type) pair.  A function
\* pointer is the pair <<traits struct, member>>.

Methods ==
    {"MIN", "MIN_LARGEINT", "MAX", "MAX_LARGEINT", "SUM", "SUM_LARGEINT",
     "REPLACE", "REPLACE_CHAR", "REPLACE_VARCHAR", "HLL_UNION"}

NumericMethods == {"MIN", "MIN_LARGEINT", "MAX", "MAX_LARGEINT", "SUM", "SUM_LARGEINT", "REPLACE"}
CharMethods == {"REPLACE_CHAR", "REPLACE_VARCHAR"}

\* the static members each traits struct ends up with
TraitsInit(m) ==
    IF m = "HLL_UNION" THEN <<"HLL_UNION", "init">> ELSE <<"Base", "init">>

TraitsUpdate(m) ==
    IF m = "REPLACE_VARCHAR" THEN <<"REPLACE_CHAR", "update">> ELSE <<m, "update">>

\* a SUM traits struct that supplies a merge of its own
TraitsMergeSum(m) == IF m = "SUM" THEN <<"Base", "update">> ELSE nullptr

TraitsMerge(m) == nullptr

TraitsFinalize(m) ==
    IF m = "HLL_UNION" THEN <<"HLL_UNION", "finalize">> ELSE <<"Base", "finalize">>

\* AggregateInfo::AggregateInfo(const Traits&)
AggregateInfo(m) ==
    [_init_fn |-> TraitsInit(m),
     _update_fn |-> TraitsUpdate(m),
     _merge_fn |-> IF TraitsMerge(m) = nullptr THEN TraitsUpdate(m) ELSE TraitsMerge(m),
     _finalize_fn |-> TraitsFinalize(m),
     _agg_method |-> m]

\* calls through the function pointers
CallInit(fn, d) ==
    IF fn = <<"HLL_UNION", "init">> THEN HllInit(d) ELSE BaseInit(d)

CallUpdate(fn, d, s, arena) ==
    CASE fn = <<"MIN", "update">> -> MinUpdate(d, s, arena)
      [] fn = <<"MIN_LARGEINT", "update">> -> MinLargeIntUpdate(d, s, arena)
      [] fn = <<"MAX", "update">> -> MaxUpdate(d, s, arena)
      [] fn = <<"MAX_LARGEINT", "update">> -> MaxLargeIntUpdate(d, s, arena)
      [] fn = <<"SUM", "update">> -> SumUpdate(d, s, arena)
      [] fn = <<"SUM_LARGEINT", "update">> -> SumLargeIntUpdate(d, s, arena)
      [] fn = <<"REPLACE", "update">> -> ReplaceUpdate(d, s, arena)
      [] fn = <<"REPLACE_CHAR", "update">> -> ReplaceCharUpdate(d, s, arena)
      [] fn = <<"HLL_UNION", "update">> -> HllUpdate(d, s, arena)
      [] OTHER -> BaseUpdate(d, s, arena)

CallFinalize(fn, d) ==
    IF fn = <<"HLL_UNION", "finalize">> THEN HllFinalize(d) ELSE BaseFinalize(d)

\* AggregateInfo::init / update / merge / finalize
InfoInit(m, d) == CallInit(AggregateInfo(m)._init_fn, d)
InfoUpdate(m, d, s, arena) == CallUpdate(AggregateInfo(m)._update_fn, d, s, arena)
InfoMerge(m, d, s, arena) == CallUpdate(AggregateInfo(m)._merge_fn, d, s, arena)
InfoFinalize(m, d) == CallFinalize(AggregateInfo(m)._finalize_fn, d)

---------------------------------------------------------------------------
\* Source cells and the destination as constructed.

Cell(n, v) == [null |-> n, val |-> v]

\* a null cell still has value bytes behind its null flag
NumericCells ==
    {Cell(FALSE, v) : v \in Values} \cup {Cell(TRUE, v) : v \in {CppMin, CppMax}}

CharCells == {Cell(FALSE, v) : v \in CharValues} \cup {Cell(TRUE, <<"b">>)}

FullRegisters == [i \in RegIndex |-> 2]

HllSketches ==
    {EmptySketch}
    \cup {Sketch("EXPLICIT", {h}, ZeroRegisters) : h \in Hashes}
    \cup {Sketch("SPARSE", {}, [i \in RegIndex |-> IF i = r THEN 1 ELSE 0]) : r \in RegIndex}
    \cup {Sketch("FULL", {}, FullRegisters)}

HllCells ==
    {Cell(FALSE, sk) : sk \in HllSketches} \cup {Cell(TRUE, Sketch("EXPLICIT", {1}, ZeroRegisters))}

Cells(m) ==
    IF m \in NumericMethods THEN NumericCells
    ELSE IF m \in CharMethods THEN CharCells
    ELSE HllCells

\* only the CHAR/VARCHAR update looks at its arena argument
TheArena == <<"Arena", "arena">>

Arenas(m) == IF m \in CharMethods THEN {nullptr, TheArena} ELSE {TheArena}

\* the row buffer's slot before init: the null byte and value bytes hold
\* whatever was there; a CHAR/VARCHAR slot points at the row's own buffer,
\* which holds the longest value of the column
RawCells(m) ==
    IF m \in NumericMethods
    THEN {[null |-> n, val |-> v, slice |-> NoSlice, ctx |-> NoContext] :
              n \in BOOLEAN, v \in {CppMin, CppMax}}
    ELSE IF m \in CharMethods
    THEN {[null |-> n, val |-> 0,
           slice |-> [cap |-> c, size |-> 0, bytes |-> Repeat("?", c)],
           ctx |-> NoContext] : n \in BOOLEAN, c \in {MaxLen}}
    ELSE {[null |-> n, val |-> EmptySketch,
           slice |-> [cap |-> HLL_COLUMN_DEFAULT_LEN, size |-> HLL_COLUMN_DEFAULT_LEN,
                      bytes |-> <<>>],
           ctx |-> [hash64_set |-> {1}, registers |-> FullRegisters,
                    has_sparse_or_full |-> TRUE, has_value |-> FALSE,
                    hash64_set_deleted |-> FALSE]] : n \in BOOLEAN}

NoRowset == [state |-> "none"]

---------------------------------------------------------------------------
\* One destination cell driven through the AggregateInfo of its column.

Init ==
    /\ method \in Methods
    /\ phase = "constructed"
    /\ dst \in RawCells(method)
    /\ hist = <<>>
    /\ last_op = "none"
    /\ last_arena = TRUE
    /\ all_arena = TRUE
    /\ rowset = NoRowset

\* a copy of n bytes into a buffer of fewer bytes runs past its end
Overruns(d) == Len(d.slice.bytes) > d.slice.cap

AggInit ==
    /\ phase = "constructed"
    /\ dst' = InfoInit(method, dst)
    /\ phase' = "inited"
    /\ last_op' = "init"
    /\ UNCHANGED <<method, hist, last_arena, all_arena, rowset>>

Fold(op, next, s, arena) ==
    /\ phase = "inited"
    /\ Len(hist) < MaxHist
    /\ dst' = next
    /\ hist' = Append(hist, s)
    /\ last_op' = op
    /\ last_arena' = (arena # nullptr)
    /\ all_arena' = (all_arena /\ arena # nullptr)
    /\ UNCHANGED <<method, phase, rowset>>

AggUpdate ==
    \E s \in Cells(method), arena \in Arenas(method) :
        Fold("update", InfoUpdate(method, dst, s, arena), s, arena)

AggMerge ==
    \E s \in Cells(method), arena \in Arenas(method) :
        Fold("merge", InfoMerge(method, dst, s, arena), s, arena)

\* the out-of-bounds memory_copy may also end the process
AggFault ==
    /\ phase = "inited"
    /\ Len(hist) < MaxHist
    /\ \E s \in Cells(method), arena \in Arenas(method) :
           Overruns(InfoUpdate(method, dst, s, arena))
    /\ phase' = "crashed"
    /\ UNCHANGED <<method, dst, hist, last_op, last_arena, all_arena, rowset>>

AggFinalize ==
    /\ phase = "inited"
    /\ dst' = InfoFinalize(method, dst)
    /\ phase' = "finalized"
    /\ last_op' = "finalize"
    /\ UNCHANGED <<method, hist, last_arena, all_arena, rowset>>

Next == AggInit \/ AggUpdate \/ AggMerge \/ AggFault \/ AggFinalize

Spec == Init /\ [][Next]_vars

---------------------------------------------------------------------------
\* The rowset lifecycle: Unbound -> Initialized -> Loaded -> Removed.
\* r is the rowset object together with its files on disk.

OLAP_SUCCESS == "OLAP_SUCCESS"

Files == 1..NumFiles

NewRowset ==
    [state |-> "Unbound", files |-> Files, cached |-> FALSE, reads |-> 0,
     op |-> "none", status |-> "none", remove_status |-> "none"]

Returned(r, op, status) == [r EXCEPT !.op = op, !.status = status]

\* AlphaRowset::init: valid says whether the path layout and the metadata are good
RowsetInit(r, valid) ==
    IF r.state = "Removed" THEN Returned(r, "init", "invalid_path")
    ELSE IF ~valid THEN Returned(r, "init", "invalid_metadata")
    ELSE Returned([r EXCEPT !.state = IF @ = "Unbound" THEN "Initialized" ELSE @],
                  "init", OLAP_SUCCESS)

\* RowsetLoad without the check for a removed rowset
RowsetLoadUnchecked(r, use_cache, io_ok) ==
    IF r.state = "Loaded" THEN Returned(r, "load", OLAP_SUCCESS)
    ELSE IF use_cache /\ r.cached
    THEN Returned([r EXCEPT !.state = "Loaded"], "load", OLAP_SUCCESS)
    ELSE IF io_ok
    THEN Returned([r EXCEPT !.state = "Loaded", !.reads = @ + 1, !.cached = TRUE],
                  "load", OLAP_SUCCESS)
    ELSE Returned(r, "load", "io_failure")

\* AlphaRowset::load: io_ok says whether the disk read succeeds
RowsetLoad(r, use_cache, io_ok) ==
    IF r.state = "Removed" THEN Returned(r, "load", "io_failure")
    ELSE IF r.state = "Loaded" THEN Returned(r, "load", OLAP_SUCCESS)
    ELSE IF use_cache /\ r.cached
    THEN Returned([r EXCEPT !.state = "Loaded"], "load", OLAP_SUCCESS)
    ELSE IF io_ok
    THEN Returned([r EXCEPT !.state = "Loaded", !.reads = @ + 1, !.cached = TRUE],
                  "load", OLAP_SUCCESS)
    ELSE Returned(r, "load", "io_failure")

\* AlphaRowset::create_reader: loads first when the rowset is not loaded yet
RowsetCreateReader(r, io_ok) ==
    IF r.state = "Removed" THEN Returned(r, "create_reader", "io_failure")
    ELSE LET l == RowsetLoad(r, TRUE, io_ok)
         IN  Returned(l, "create_reader", l.status)

\* AlphaRowset::remove: stuck is the set of files whose deletion fails
RowsetRemove(r, stuck) ==
    IF r.state = "Removed" THEN Returned(r, "remove", "io_failure")
    ELSE LET left == r.files \cap stuck
             status == IF left = {} THEN OLAP_SUCCESS ELSE "partial_failure"
         IN  [r EXCEPT !.state = "Removed", !.files = left, !.op = "remove",
                       !.status = status, !.remove_status = status]

\* AlphaRowset::link_files_to
RowsetLinkFilesTo(r, io_ok) ==
    IF r.state = "Removed" THEN Returned(r, "link_files_to", "io_failure")
    ELSE Returned(r, "link_files_to", IF io_ok THEN OLAP_SUCCESS ELSE "io_failure")

\* AlphaRowset::copy_files_to
RowsetCopyFilesTo(r, io_ok) ==
    IF r.state = "Removed" THEN Returned(r, "copy_files_to", "io_failure")
    ELSE Returned(r, "copy_files_to", IF io_ok THEN OLAP_SUCCESS ELSE "io_failure")

RowsetStart ==
    /\ method = "NONE"
    /\ phase = "constructed"
    /\ dst = [null |-> TRUE, val |-> 0, slice |-> NoSlice, ctx |-> NoContext]
    /\ hist = <<>>
    /\ last_op = "none"
    /\ last_arena = TRUE
    /\ all_arena = TRUE
    /\ rowset = NewRowset

AggUnchanged == UNCHANGED <<method, phase, dst, hist, last_op, last_arena, all_arena>>

DoInit ==
    /\ \E valid \in BOOLEAN : rowset' = RowsetInit(rowset, valid)
    /\ AggUnchanged

\* load and the snapshot calls are made on a rowset that went through init
DoLoad ==
    /\ rowset.state # "Unbound"
    /\ \E use_cache \in BOOLEAN, io_ok \in BOOLEAN :
           rowset' = RowsetLoad(rowset, use_cache, io_ok)
    /\ AggUnchanged

DoCreateReader ==
    /\ rowset.state # "Unbound"
    /\ \E io_ok \in BOOLEAN : rowset' = RowsetCreateReader(rowset, io_ok)
    /\ AggUnchanged

DoRemove ==
    /\ \E stuck \in SUBSET Files : rowset' = RowsetRemove(rowset, stuck)
    /\ AggUnchanged

DoLinkFilesTo ==
    /\ rowset.state # "Unbound"
    /\ \E io_ok \in BOOLEAN : rowset' = RowsetLinkFilesTo(rowset, io_ok)
    /\ AggUnchanged

DoCopyFilesTo ==
    /\ rowset.state # "Unbound"
    /\ \E io_ok \in BOOLEAN : rowset' = RowsetCopyFilesTo(rowset, io_ok)
    /\ AggUnchanged

RowsetNext ==
    DoInit \/ DoLoad \/ DoCreateReader \/ DoRemove \/ DoLinkFilesTo \/ DoCopyFilesTo

RowsetSpec == RowsetStart /\ [][RowsetNext]_vars

---------------------------------------------------------------------------
\* Properties.

Folded == phase \in {"inited", "finalized", "crashed"}

SumMethods == {"SUM", "SUM_LARGEINT"}
MinMethods == {"MIN", "MIN_LARGEINT"}
MaxMethods == {"MAX", "MAX_LARGEINT"}
ReplaceMethods == {"REPLACE", "REPLACE_CHAR", "REPLACE_VARCHAR"}

\* the values of the non-null cells of h, in order
RECURSIVE NonNullValues(_)
NonNullValues(h) ==
    IF h = <<>> THEN <<>>
    ELSE IF Head(h).null THEN NonNullValues(Tail(h))
    ELSE <<Head(h).val>> \o NonNullValues(Tail(h))

\* the sum of a sequence of integers, as a mathematical integer
RECURSIVE LiteralSum(_)
LiteralSum(vs) == IF vs = <<>> THEN 0 ELSE Head(vs) + LiteralSum(Tail(vs))

SetMin(S) == CHOOSE x \in S : \A y \in S : x <= y

Range(f) == {f[i] : i \in DOMAIN f}

\* h folded with update into the cell d
RECURSIVE Refold(_, _, _)
Refold(m, d, h) ==
    IF h = <<>> THEN d ELSE Refold(m, InfoUpdate(m, d, Head(h), TheArena), Tail(h))

\* every reordering of hist, folded from any initialized cell, ends in dst's
\* null flag and (when non-null) value
OrderIndependent ==
    \A p \in Permutations(1..Len(hist)), raw \in RawCells(method) :
        LET r == Refold(method, InfoInit(method, raw), [i \in 1..Len(hist) |-> hist[p[i]]])
        IN  r.null = dst.null /\ (~r.null => r.val = dst.val)

\* C1 as stated: SUM folded from init ends in the literal sum of the non-null
\* sources, whatever their order, and stays null when every source was null.
C1_LiteralSum ==
    (method \in SumMethods /\ Folded) =>
        LET vs == NonNullValues(hist)
        IN  /\ dst.null = (vs = <<>>)
            /\ vs # <<>> => dst.val = LiteralSum(vs)
            /\ OrderIndependent

\* C1 amended: on an integer column SUM ends in the literal sum of the non-null
\* sources wrapped to the width of the column's type (the literal sum itself
\* while it fits), whatever their order, and stays null through finalize when
\* every source was null.
C1_WrappedSum ==
    (method \in SumMethods /\ Folded) =>
        LET vs == NonNullValues(hist)
        IN  /\ dst.null = (vs = <<>>)
            /\ vs # <<>> => dst.val = Narrow(LiteralSum(vs))
            /\ OrderIndependent

C1_Witness ==
    /\ method = "SUM"
    /\ phase = "finalized"
    /\ Len(NonNullValues(hist)) >= 2
    /\ LiteralSum(NonNullValues(hist)) > CppMax
    /\ dst.val = Narrow(LiteralSum(NonNullValues(hist)))

\* C2: MIN/MAX folded from init is null exactly when every source was null and
\* otherwise holds the smallest/largest non-null source value; folding in a
\* value equal to the current minimum/maximum leaves the destination as it is
\* (generic and LARGEINT specialisations alike).
C2_MinMax ==
    (method \in MinMethods \cup MaxMethods /\ Folded) =>
        LET vs == Range(NonNullValues(hist))
        IN  /\ dst.null = (vs = {})
            /\ (vs # {} /\ method \in MinMethods) => dst.val = SetMin(vs)
            /\ (vs # {} /\ method \in MaxMethods) => dst.val = SetMax(vs)
            /\ ~dst.null =>
                   /\ InfoUpdate(method, dst, Cell(FALSE, dst.val), TheArena) = dst
                   /\ InfoMerge(method, dst, Cell(FALSE, dst.val), TheArena) = dst

C2_Witness ==
    /\ method = "MAX"
    /\ hist = <<Cell(FALSE, 2), Cell(TRUE, CppMax), Cell(FALSE, 5)>>
    /\ ~dst.null
    /\ dst.val = 5

\* the bytes a Slice shows: the first size bytes at data
View(slice) == SubSeq(slice.bytes, 1, slice.size)

\* C3: REPLACE is last-write-wins: after any non-empty sequence of updates the
\* destination's null flag and (when non-null) value are the last source's,
\* whatever came before.
C3_LastWriteWins ==
    (method \in ReplaceMethods /\ Folded /\ hist # <<>>) =>
        LET s == hist[Len(hist)]
        IN  /\ dst.null = s.null
            /\ (~s.null /\ method = "REPLACE") => dst.val = s.val
            /\ (~s.null /\ method \in CharMethods) =>
                   dst.slice.size = Len(s.val) /\ View(dst.slice) = s.val

C3_Witness ==
    /\ method = "REPLACE"
    /\ Len(hist) = 3
    /\ ~hist[1].null /\ hist[2].null /\ ~hist[3].null
    /\ hist[3].val # hist[1].val
    /\ ~dst.null
    /\ dst.val = hist[3].val

\* a step that folded a null source cell
NullFold == hist' # hist /\ hist'[Len(hist')].null

\* C4 as stated: for every method, update with a null source leaves the
\* destination's null flag and value exactly as they were.
C4_NullIgnored ==
    [][NullFold =>
          /\ dst'.null = dst.null
          /\ dst'.val = dst.val
          /\ dst'.slice = dst.slice]_vars

\* C4 amended: MIN, MAX and SUM ignore a null source (the destination is left
\* as it was); HLL_UNION leaves the null flag and the slice as they were;
\* REPLACE copies the null flag, so a null source makes the destination null
\* and leaves its value bytes as they were.
C4_NullSource ==
    [][NullFold =>
          IF method \in MinMethods \cup MaxMethods \cup SumMethods
          THEN dst' = dst
          ELSE IF method \in ReplaceMethods
          THEN dst' = [dst EXCEPT !.null = TRUE]
          ELSE /\ dst'.null = dst.null
               /\ dst'.val = dst.val
               /\ dst'.slice = dst.slice]_vars

C4_Witness ==
    /\ method = "REPLACE"
    /\ Len(hist) = 2
    /\ ~hist[1].null /\ hist[2].null
    /\ dst.null
    /\ dst.val = hist[1].val

\* C5: REPLACE on CHAR/VARCHAR without an arena: an update with a non-null
\* source writes no more bytes than the destination buffer holds and leaves
\* a size no larger than that capacity, also for a longer source.
C5_NoArenaTruncates ==
    (method \in CharMethods /\ Folded /\ hist # <<>>
        /\ ~last_arena /\ ~hist[Len(hist)].null) =>
        /\ Len(dst.slice.bytes) <= dst.slice.cap
        /\ dst.slice.size <= dst.slice.cap

\* a step that finalized an HLL_UNION destination
HllFinalized == method = "HLL_UNION" /\ phase = "inited" /\ phase' = "finalized"

\* the registers that are non-zero once the hash set is merged into them
NonZeroRegisters(c) ==
    {i \in RegIndex : c.registers[i] # 0 \/ \E h \in c.hash64_set : h % HLL_REGISTERS_COUNT = i}

\* the serialized length of the sparse encoding of n registers
SparseLength(n) ==
    SizeofSparseLengthValueType + n * (SizeofSparseIndexType + SizeofSparseValueType)

\* the sketch in the destination is of the given format and its length is
\* the slice's size
Encoded(d, type, len) == d.val.type = type /\ d.slice.size = len

\* the hash set is small and no register conversion has occurred
SmallExplicit(c) ==
    /\ ~c.has_sparse_or_full
    /\ c.hash64_set # {}
    /\ Cardinality(c.hash64_set) <= HLL_EXPLICLIT_INT64_NUM

\* C6 as stated: finalize writes EXPLICIT when the hash set is small and
\* non-empty and no register conversion has occurred, FULL when the sparse
\* encoding would exceed HLL_COLUMN_DEFAULT_LEN, SPARSE in every other case,
\* and stores the encoding's length in the slice's size.
C6_ThreeEncodings ==
    [][HllFinalized =>
          LET c == dst.ctx
              n == Cardinality(NonZeroRegisters(c))
          IN  IF SmallExplicit(c)
              THEN Encoded(dst', "EXPLICIT",
                           SizeofSetType + SizeofExplicitLengthValueType
                               + Cardinality(c.hash64_set) * SizeofHash64)
              ELSE IF SparseLength(n) > HLL_COLUMN_DEFAULT_LEN
              THEN Encoded(dst', "FULL", SizeofSetType + HLL_REGISTERS_COUNT)
              ELSE Encoded(dst', "SPARSE", SizeofSetType + SparseLength(n))]_vars

\* C6 amended: as stated, except that a context with an empty hash set and no
\* non-zero register gets no encoding at all: finalize writes nothing into
\* the slice and sets its size to 0; and FULL is chosen when the sparse
\* length is at least HLL_COLUMN_DEFAULT_LEN.
C6_Encodings ==
    [][HllFinalized =>
          LET c == dst.ctx
              n == Cardinality(NonZeroRegisters(c))
          IN  IF SmallExplicit(c)
              THEN Encoded(dst', "EXPLICIT",
                           SizeofSetType + SizeofExplicitLengthValueType
                               + Cardinality(c.hash64_set) * SizeofHash64)
              ELSE IF n = 0
              THEN dst'.val = dst.val /\ dst'.slice.size = 0
              ELSE IF SparseLength(n) >= HLL_COLUMN_DEFAULT_LEN
              THEN Encoded(dst', "FULL", SizeofSetType + HLL_REGISTERS_COUNT)
              ELSE Encoded(dst', "SPARSE", SizeofSetType + SparseLength(n))]_vars

C6_Witness ==
    /\ method = "HLL_UNION"
    /\ phase = "finalized"
    /\ ~dst.ctx.has_sparse_or_full
    /\ Cardinality(dst.ctx.hash64_set) > HLL_EXPLICLIT_INT64_NUM
    /\ dst.val.type = "FULL"
    /\ dst.slice.size = SizeofSetType + HLL_REGISTERS_COUNT

\* C7: no built-in pair supplies a merge, so merge leaves the destination in
\* the state update would: for every destination and source cell, a merge
\* step ends where the pair's update function ends.
C7_MergeIsUpdate ==
    [][(last_op' = "merge" /\ hist' # hist) =>
          dst' = CallUpdate(TraitsUpdate(method), dst, hist'[Len(hist')],
                            IF last_arena' THEN TheArena ELSE nullptr)]_vars

C7_Witness ==
    /\ method = "SUM"
    /\ last_op = "merge"
    /\ Len(hist) = 2
    /\ ~hist[1].null /\ ~hist[2].null
    /\ dst.val = Narrow(hist[1].val + hist[2].val)

\* C8: once remove() was called on a rowset, every later operation on it
\* fails, also when remove() itself reported a partial failure.
C8_RemovedIsInert ==
    [][rowset.state = "Removed" =>
          rowset'.state = "Removed" /\ rowset'.status # OLAP_SUCCESS]_vars

C8_Witness ==
    /\ rowset.state = "Removed"
    /\ rowset.remove_status = "partial_failure"
    /\ rowset.op = "create_reader"
    /\ rowset.status # OLAP_SUCCESS

\* C9: an HLL_UNION destination has a value once initialized: init clears the
\* null flag and sets the context's has_value, and no update, whatever its
\* source, sets the null flag again.
C9_HllNeverNull ==
    (method = "HLL_UNION" /\ Folded) =>
        /\ ~dst.null
        /\ last_op = "init" => dst.ctx.has_value

C9_Witness ==
    /\ method = "HLL_UNION"
    /\ phase = "inited"
    /\ Len(hist) = 2
    /\ hist[1].null /\ ~hist[2].null
    /\ ~dst.null

\* C10: REPLACE on CHAR/VARCHAR with an arena in every call: an update with a
\* non-null source stays within the buffer the slice points to (it reuses
\* the buffer only when the destination is non-null and its size is at least
\* the source's, and otherwise takes an arena buffer of exactly the source's
\* size), leaves the source's size and bytes in the destination, and the
\* recorded size never exceeds the buffer's capacity.
C10_ArenaInBounds ==
    [][(method \in CharMethods /\ all_arena' /\ hist' # hist) =>
          LET s == hist'[Len(hist')]
              size == Len(s.val)
          IN  IF s.null
              THEN dst'.slice = dst.slice
              ELSE /\ Len(dst'.slice.bytes) <= dst'.slice.cap
                   /\ dst'.slice.size = size
                   /\ View(dst'.slice) = s.val
                   /\ dst'.slice.size <= dst'.slice.cap
                   /\ IF ~dst.null /\ dst.slice.size >= size
                      THEN dst'.slice.cap = dst.slice.cap
                      ELSE dst'.slice.cap = size]_vars

C10_Witness ==
    /\ method = "REPLACE_VARCHAR"
    /\ all_arena
    /\ Len(hist) = 3
    /\ ~dst.null
    /\ dst.slice.cap = 2
    /\ dst.slice.size = 1
    /\ dst.slice.bytes = <<"b", "a">>

====
